---- MODULE Spec2Model ----
(***************************************************************************)
(* Steel pipe weight calculator (kamboh989/calculator-pipe).               *)
(*                                                                         *)
(* The repository holds three successive PipeWeightPage components:        *)
(*   "v1"  src/app/page.tsx lines 1-336    shortcut formulas               *)
(*   "v2"  src/app/page.tsx lines 338-705  geometry + density              *)
(*   "v3"  src/unnamed/part_000            round / square / rectangle      *)
(* Each is a React component: text fields and selectors (useState), a      *)
(* memoised calculation (useMemo) and handlers that edit the fields.       *)
(*                                                                         *)
(* Numbers.  A JavaScript number is modelled as NaN, +Infinity, -Infinity  *)
(* or an exact finite value  sg * mag * 10^(-sc) * pi^p , where mag is an  *)
(* unbounded natural kept as a little-endian sequence of base-10000 limbs  *)
(* and p \in {0,1} is the power of Math.PI.  Every constant of the source  *)
(* and every input is a decimal fraction, so this arithmetic is exact; the *)
(* rounding of IEEE doubles is not modelled.  Overflow is: a finite result *)
(* of magnitude 2^1024 - 2^970 or more is +Infinity or -Infinity.  The     *)
(* texts of Spec stay far below that range; SpecWide adds a text whose     *)
(* square exceeds it.                                                      *)
(***************************************************************************)
EXTENDS Integers, Sequences, FiniteSets, TLC

\* ------------------------------------------------------------------------
\* Bounds
\* ------------------------------------------------------------------------
\* Number of raw texts of TokenSeq that a field may be edited to.
MaxToken == 10

\* ------------------------------------------------------------------------
\* Exact naturals: little-endian sequences of limbs, no leading zero limb
\* ------------------------------------------------------------------------
\* radix of the limbs: four decimal digits per limb
Base == 10 ^ 4

Max(i, j) == IF i >= j THEN i ELSE j

\* limb i of a, zero beyond its length
Limb(a, i) == IF i <= Len(a) THEN a[i] ELSE 0

\* The operators on limb sequences work on a range lo..hi of positions and
\* halve it, so that the depth of the evaluation grows with the logarithm
\* of the length.  A range yields << limbs, carry >>.

\* the highest position of lo..hi with a nonzero limb, 0 if there is none
RECURSIVE TopLimb(_, _, _)
TopLimb(a, lo, hi) ==
  IF lo = hi THEN (IF a[lo] = 0 THEN 0 ELSE lo)
  ELSE LET h == TopLimb(a, (lo + hi) \div 2 + 1, hi)
       IN  IF h # 0 THEN h ELSE TopLimb(a, lo, (lo + hi) \div 2)

NormM(a) ==
  IF a = <<>> THEN <<>> ELSE SubSeq(a, 1, TopLimb(a, 1, Len(a)))

RECURSIVE FromNat(_)
FromNat(k) == IF k = 0 THEN <<>> ELSE <<k % Base>> \o FromNat(k \div Base)

\* one limb and the carry of a value below Base * Base
Carry(v) == << <<v % Base>>, v \div Base >>

\* one limb and the borrow of a difference above -Base
Borrow(d) == IF d < 0 THEN << <<d + Base>>, 1 >> ELSE << <<d>>, 0 >>

\* the limbs of a range with its carry put on top
WithCarry(r) == r[1] \o FromNat(r[2])

\* the limbs of h moved k positions up
Above(h, k) == IF h = <<>> THEN <<>> ELSE [i \in 1..k |-> 0] \o h

\* limbs lo..hi of a + b + c and the carry out of them
RECURSIVE AddRange(_, _, _, _, _)
AddRange(a, b, lo, hi, c) ==
  IF lo = hi THEN Carry(Limb(a, lo) + Limb(b, lo) + c)
  ELSE LET l == AddRange(a, b, lo, (lo + hi) \div 2, c)
           h == AddRange(a, b, (lo + hi) \div 2 + 1, hi, l[2])
       IN  << l[1] \o h[1], h[2] >>

AddM(a, b) ==
  IF a = <<>> THEN b
  ELSE WithCarry(AddRange(a, b, 1, Max(Len(a), Len(b)), 0))

\* limbs lo..hi of a - b - c and the borrow out of them
RECURSIVE SubRange(_, _, _, _, _)
SubRange(a, b, lo, hi, c) ==
  IF lo = hi THEN Borrow(Limb(a, lo) - Limb(b, lo) - c)
  ELSE LET l == SubRange(a, b, lo, (lo + hi) \div 2, c)
           h == SubRange(a, b, (lo + hi) \div 2 + 1, hi, l[2])
       IN  << l[1] \o h[1], h[2] >>

\* a - b for a >= b
SubM(a, b) ==
  IF a = <<>> THEN <<>> ELSE NormM(SubRange(a, b, 1, Len(a), 0)[1])

\* limbs lo..hi of a * k + c and the carry out of them
RECURSIVE MulSmallRange(_, _, _, _, _)
MulSmallRange(a, k, lo, hi, c) ==
  IF lo = hi THEN Carry(a[lo] * k + c)
  ELSE LET l == MulSmallRange(a, k, lo, (lo + hi) \div 2, c)
           h == MulSmallRange(a, k, (lo + hi) \div 2 + 1, hi, l[2])
       IN  << l[1] \o h[1], h[2] >>

\* a * k for a limb k > 0
MulSmall(a, k) ==
  IF a = <<>> THEN <<>> ELSE WithCarry(MulSmallRange(a, k, 1, Len(a), 0))

\* a times the limbs lo..hi of b, for a # <<>>: the range is halved down to
\* single limbs and the partial products are added
RECURSIVE MulRange(_, _, _, _)
MulRange(a, b, lo, hi) ==
  IF lo = hi THEN (IF b[lo] = 0 THEN <<>> ELSE MulSmall(a, b[lo]))
  ELSE AddM(MulRange(a, b, lo, (lo + hi) \div 2),
            Above(MulRange(a, b, (lo + hi) \div 2 + 1, hi),
                  (lo + hi) \div 2 + 1 - lo))

\* a * b for a at least as long as b
MulLong(a, b) == IF b = <<>> THEN <<>> ELSE MulRange(a, b, 1, Len(b))

MulM(a, b) ==
  MulLong(IF Len(a) < Len(b) THEN b ELSE a, IF Len(a) < Len(b) THEN a ELSE b)

\* -1, 0, 1 as the limbs lo..hi of a are below, equal to or above those of b
RECURSIVE CmpRange(_, _, _, _)
CmpRange(a, b, lo, hi) ==
  IF lo = hi
    THEN (IF a[lo] < b[lo] THEN -1 ELSE IF a[lo] > b[lo] THEN 1 ELSE 0)
  ELSE LET h == CmpRange(a, b, (lo + hi) \div 2 + 1, hi)
       IN  IF h # 0 THEN h ELSE CmpRange(a, b, lo, (lo + hi) \div 2)

\* -1, 0, 1 as a < b, a = b, a > b
CmpM(a, b) ==
  IF Len(a) < Len(b) THEN -1
  ELSE IF Len(a) > Len(b) THEN 1
  ELSE IF a = <<>> THEN 0
  ELSE CmpRange(a, b, 1, Len(a))

\* a * 10^k for k a multiple of 4: whole limbs are shifted in
Shift10(a, k) == Above(a, k \div 4)

\* ------------------------------------------------------------------------
\* JavaScript numbers
\* ------------------------------------------------------------------------
NaN == [k |-> "nan", sg |-> 0, mag |-> <<>>, sc |-> 0, p |-> 0]
PosInfinity == [k |-> "inf", sg |-> 1, mag |-> <<>>, sc |-> 0, p |-> 0]
NegInfinity == [k |-> "inf", sg |-> -1, mag |-> <<>>, sc |-> 0, p |-> 0]

\* the finite number of sign sg and magnitude mag * 10^(-sc) * pi^p
Fin(sg, mag, sc, p) ==
  [k |-> "fin", sg |-> sg, mag |-> mag, sc |-> sc, p |-> p]

\* the infinity of sign sg
Inf(sg) == [k |-> "inf", sg |-> sg, mag |-> <<>>, sc |-> 0, p |-> 0]

\* the finite number m * 10^(-s), m an integer literal; the scale is kept a
\* multiple of 4, so that aligning two numbers moves whole limbs
Dec(m, s) ==
  IF m = 0 THEN [k |-> "fin", sg |-> 0, mag |-> <<>>, sc |-> 0, p |-> 0]
  ELSE Fin(IF m > 0 THEN 1 ELSE -1,
           FromNat((IF m > 0 THEN m ELSE -m) * 10 ^ ((-s) % 4)),
           s + ((-s) % 4), 0)

MathPI == [k |-> "fin", sg |-> 1, mag |-> <<1>>, sc |-> 0, p |-> 1]

Zero == [k |-> "fin", sg |-> 0, mag |-> <<>>, sc |-> 0, p |-> 0]

IsNaN(x) == x.k = "nan"
IsFinite(x) == x.k = "fin"

\* magnitude of x at decimal scale s >= x.sc
MagAt(x, s) == Shift10(x.mag, s - x.sc)

\* -1, 0, 1 as |x| is below, equal to or above |y|, for finite x, y
CmpAbsAt(x, y, s) == CmpM(MagAt(x, s), MagAt(y, s))

\* -1, 0, 1 for finite x, y with the same power of pi
CmpFin(x, y) ==
  IF x.sg # y.sg THEN (IF x.sg < y.sg THEN -1 ELSE 1)
  ELSE IF x.sg = 0 THEN 0
  ELSE x.sg * CmpAbsAt(x, y, Max(x.sc, y.sc))

\* -1, 0, 1 for numbers that are not NaN; infinities are beyond every
\* finite number
CmpNum(x, y) ==
  IF x.k = "inf" /\ y.k = "inf"
    THEN (IF x.sg = y.sg THEN 0 ELSE x.sg)
  ELSE IF x.k = "inf" THEN x.sg
  ELSE IF y.k = "inf" THEN -y.sg
  ELSE CmpFin(x, y)

Comparable(x, y) ==
  /\ ~IsNaN(x) /\ ~IsNaN(y)
  /\ (IsFinite(x) /\ IsFinite(y)) => x.p = y.p

\* x > y of JavaScript: false when either side is NaN
Gt(x, y) == Comparable(x, y) /\ CmpNum(x, y) = 1

\* x >= y of JavaScript
Ge(x, y) == Comparable(x, y) /\ CmpNum(x, y) >= 0

\* x > 0 and x >= 0 of JavaScript
GtZero(x) == ~IsNaN(x) /\ x.sg = 1
GeZero(x) == ~IsNaN(x) /\ x.sg >= 0

\* the two numbers denote the same value (NaN is the same value as NaN here;
\* a rational multiple of pi equals a rational only when both are zero)
SameValue(x, y) ==
  IF x.k # "fin" \/ y.k # "fin" THEN x.k = y.k /\ x.sg = y.sg
  ELSE IF x.sg = 0 \/ y.sg = 0 THEN x.sg = y.sg
  ELSE x.p = y.p /\ CmpFin(x, y) = 0

\* 2^1024 - 2^970 in limbs (about 1.797693e308): a double operation whose
\* exact result reaches this magnitude returns an infinity (round to
\* nearest)
DoubleLimit ==
  << 7792, 7449, 9041, 177, 4288, 930, 9508, 5969, 7115, 4342, 1070, 3655,
     8444, 7416, 7190, 5292, 3647, 8349, 9860, 1481, 8429, 9622, 6695,
     5713, 9855, 7006, 7302, 4475, 3176, 7115, 5817, 5484, 2738, 3676, 838,
     7, 8902, 8190, 8206, 1505, 8867, 6574, 2630, 4040, 8519, 5547, 4655,
     9109, 2887, 1669, 2864, 6330, 709, 5872, 7977, 4901, 9466, 4750, 9276,
     9682, 444, 7898, 1737, 6936, 3782, 7100, 4132, 7993, 4150, 5303, 7140,
     7289, 793, 3158, 4862, 9313, 7976, 1 >>

\* the least natural q with q * 3.14159265 >= DoubleLimit
DoubleLimitOverPi ==
  << 5728, 9960, 5378, 937, 4428, 8534, 9324, 6868, 6142, 7418,
     6715, 9506, 4095, 5938, 1037, 6013, 6381, 8175, 4560, 4536,
     826, 1595, 6262, 7472, 548, 4454, 6923, 9387, 1450, 9426,
     623, 8292, 1683, 862, 9528, 8068, 1514, 5713, 4347, 8714,
     1461, 8564, 6152, 1226, 6575, 6598, 8972, 4325, 1289, 326,
     1133, 7760, 3331, 6700, 1519, 2702, 6058, 8682, 1024, 8221,
     1965, 5304, 5763, 3250, 5358, 7646, 2135, 9755, 5204, 641,
     3646, 4788, 2182, 2663, 7805, 2349, 5722 >>

\* a finite nonzero x whose magnitude reaches DoubleLimit (pi taken as
\* 3.14159265, from below)
Exceeds(x) ==
  IF 4 * Len(x.mag) - x.sc < 300 THEN FALSE
  ELSE CmpM(Shift10(x.mag, IF x.sc < 0 THEN -x.sc ELSE 0),
            Shift10(IF x.p = 1 THEN DoubleLimitOverPi ELSE DoubleLimit,
                    IF x.sc > 0 THEN x.sc ELSE 0)) >= 0

\* the double a finite exact result becomes
Overflow(x) == IF x.sg # 0 /\ Exceeds(x) THEN Inf(x.sg) ELSE x

Neg(x) == [x EXCEPT !.sg = -x.sg]

\* the number of sign sx and magnitude a plus the number of the opposite
\* sign sy and magnitude b, both at scale s, where c compares a with b
Diff(sx, a, sy, b, s, pw, c) ==
  IF c = 0 THEN Zero
  ELSE Fin(IF c = 1 THEN sx ELSE sy,
           SubM(IF c = 1 THEN a ELSE b, IF c = 1 THEN b ELSE a), s, pw)

\* the sum of two nonzero numbers of magnitudes a and b at scale s
Sum(sx, a, sy, b, s, pw) ==
  IF sx = sy THEN Fin(sx, AddM(a, b), s, pw)
  ELSE Diff(sx, a, sy, b, s, pw, CmpM(a, b))

SumAt(x, y, s) == Sum(x.sg, MagAt(x, s), y.sg, MagAt(y, s), s, x.p)

\* the real numbers x + y, x - y and x * y for finite x and y (operands of
\* a sum have the same power of pi)
AddR(x, y) ==
  IF x.sg = 0 THEN y
  ELSE IF y.sg = 0 THEN x
  ELSE SumAt(x, y, Max(x.sc, y.sc))

SubR(x, y) == AddR(x, Neg(y))

MulR(x, y) ==
  IF x.sg = 0 \/ y.sg = 0 THEN Zero
  ELSE Fin(x.sg * y.sg, MulM(x.mag, y.mag), x.sc + y.sc, x.p + y.p)

\* x + y of JavaScript
Add(x, y) ==
  IF IsNaN(x) \/ IsNaN(y) THEN NaN
  ELSE IF x.k = "inf" /\ y.k = "inf" THEN (IF x.sg = y.sg THEN x ELSE NaN)
  ELSE IF x.k = "inf" THEN x
  ELSE IF y.k = "inf" THEN y
  ELSE Overflow(AddR(x, y))

Sub(x, y) == Add(x, Neg(y))

\* x * y of JavaScript
Mul(x, y) ==
  IF IsNaN(x) \/ IsNaN(y) THEN NaN
  ELSE IF x.k = "inf" \/ y.k = "inf"
    THEN (IF x.sg = 0 \/ y.sg = 0 THEN NaN ELSE Inf(x.sg * y.sg))
  ELSE IF 4 * (Len(x.mag) - 1) - x.sc + 4 * (Len(y.mag) - 1) - y.sc >= 309
    \* at least 10^309: beyond DoubleLimit without computing the product
    THEN Inf(x.sg * y.sg)
  ELSE Overflow(MulR(x, y))

\* x / 4 and x / 1000, the only divisions of the source
Quarter == Dec(25, 2)
Thousandth == Dec(1, 3)
Div4(x) == Mul(x, Quarter)
Div1000(x) == Mul(x, Thousandth)

\* ------------------------------------------------------------------------
\* Raw text of the input fields
\* ------------------------------------------------------------------------
\* The texts a field can hold, in the order the bound MaxToken admits them.
TokenSeq ==
  << "", "abc", "-1", "Infinity", "0", "1", "2", "1.1", "12.7", "50",
     "10", "20", "40", "50.8", "0.1", "3" >>

Tokens == {TokenSeq[i] : i \in 1..MaxToken}

\* Number(v) of ECMAScript (StringToNumber): empty text is 0, text that is
\* not a numeric literal is NaN, "Infinity" is +Infinity.  Literal(v) is
\* << m, s >> for the decimal literal v = m * 10^(-s).
Literal(v) ==
  CASE v = "" -> <<0, 0>>
    [] v = "-1" -> <<-1, 0>>
    [] v = "0" -> <<0, 0>>
    [] v = "1" -> <<1, 0>>
    [] v = "2" -> <<2, 0>>
    [] v = "1.1" -> <<11, 1>>
    [] v = "12.7" -> <<127, 1>>
    [] v = "10" -> <<10, 0>>
    [] v = "20" -> <<20, 0>>
    [] v = "40" -> <<40, 0>>
    [] v = "50" -> <<50, 0>>
    [] v = "50.8" -> <<508, 1>>
    [] v = "0.1" -> <<1, 1>>
    [] v = "3" -> <<3, 0>>
    [] v = "-25.4" -> <<-254, 1>>
    [] v = "25.4" -> <<254, 1>>
    [] v = "27.94" -> <<2794, 2>>
    [] v = "322.58" -> <<32258, 2>>
    [] v = "1270" -> <<1270, 0>>
    [] v = "254" -> <<254, 0>>
    [] v = "508" -> <<508, 0>>
    [] v = "1016" -> <<1016, 0>>
    [] v = "1290.32" -> <<129032, 2>>
    [] v = "2.54" -> <<254, 2>>
    [] v = "76.2" -> <<762, 1>>
    [] v = "1e200" -> <<1, -200>>

DecOf(l) == Dec(l[1], l[2])

\* the decimal literals among the texts
Literals ==
  { "", "-1", "0", "1", "2", "1.1", "12.7", "10", "20", "40", "50", "50.8",
    "0.1", "3", "-25.4", "25.4", "27.94", "322.58", "1270", "254", "508",
    "1016", "1290.32", "2.54", "76.2", "1e200" }

\* their values
LiteralValue == [v \in Literals |-> DecOf(Literal(v))]

Number(v) ==
  IF v = "abc" THEN NaN
  ELSE IF v = "Infinity" THEN PosInfinity
  ELSE LiteralValue[v]

\* x when it is finite, NaN otherwise
FiniteOrNaN(x) == IF IsFinite(x) THEN x ELSE NaN

\* function num(v) of page.tsx (both components)
num(v) == FiniteOrNaN(Number(v))

\* function clampNonNegative(n) of page.tsx (both components)
clampNonNegative(x) == IF IsFinite(x) /\ GeZero(x) THEN x ELSE NaN

\* function n(v) of part_000
n(v) == FiniteOrNaN(Number(v))

\* ------------------------------------------------------------------------
\* Program constants
\* ------------------------------------------------------------------------
\* the centimetre factor 2.54 in place of 25.4
IN_TO_CM == Dec(254, 2)

IN_TO_MM == Dec(254, 1)
FT_TO_MM == Dec(3048, 1)
M_TO_MM == Dec(1000, 0)
STEEL_DENSITY_KG_PER_MM3 == Dec(785, 8)

Two == Dec(2, 0)
Four == Dec(4, 0)

\* the literals 7.85, 0.02466, 10.69 and 24.66 of the weight formulas
DENSITY_FACTOR == Dec(785, 2)
ROUND_FACTOR_MM == Dec(2466, 5)
ROUND_FACTOR_FT == Dec(1069, 2)
ROUND_FACTOR_M == Dec(2466, 2)

\* Math.PI / 4
QuarterPi == Div4(MathPI)

PipeTypes12 == {"round", "square"}
PipeTypes3 == {"round", "square", "rectangle"}
LenUnits == {"ft", "m"}
Units == {"mm", "in"}

\* ------------------------------------------------------------------------
\* v3: part_000
\* ------------------------------------------------------------------------
\* const mm = (v) => (unit === "in" ? v * IN_TO_MM : v)
mm(unit, v) == IF unit = "in" THEN Mul(v, IN_TO_MM) ELSE v

\* invalid() returning zero weights instead of NaN
invalidZero ==
  [ok |-> FALSE, wPerM |-> Dec(0, 0), total |-> Dec(0, 0),
   formulaRun |-> FALSE]

\* function invalid(); formulaRun is an auxiliary field recording whether
\* control reached a weight formula
invalid == [ok |-> FALSE, wPerM |-> NaN, total |-> NaN, formulaRun |-> FALSE]

\* const total = Number.isFinite(L) && L > 0 ? wPerM * L : NaN
total3(wPerM, L) == IF IsFinite(L) /\ GtZero(L) THEN Mul(wPerM, L) ELSE NaN

\* the round test written as !(OD <= 2 * T), which a NaN diameter passes
roundOk3NotLe(OD, T) == ~Ge(Mul(Dec(2, 0), T), OD)

\* round branch of result: the validity test and the shortcut formula
roundOk3(OD, T) == Gt(OD, Mul(Two, T))
roundW3(OD, T) == Mul(Mul(ROUND_FACTOR_MM, Sub(OD, T)), T)

\* square branch of result
squareOk3(S, T) == Gt(S, Mul(Two, T))
squareW3(S, T) ==
  Div1000(Mul(Mul(Mul(Four, T), Sub(S, T)), DENSITY_FACTOR))

\* the rectangle test with || in place of &&
rectOk3Either(W, H, T) ==
  Gt(W, Mul(Dec(2, 0), T)) \/ Gt(H, Mul(Dec(2, 0), T))

\* rectangle branch of result
rectOk3(W, H, T) == Gt(W, Mul(Two, T)) /\ Gt(H, Mul(Two, T))
rectW3(W, H, T) ==
  Div1000(Mul(Mul(Mul(Two, T), Sub(Add(W, H), Mul(Two, T))),
              DENSITY_FACTOR))

\* thickness test of result: if (!(T > 0)) return invalid()
thickOk3(T) == GtZero(T)

\* the tests of result that end in `return invalid()`, for pipe type pt
valid3(pt, T, OD, S, W, H) ==
  /\ thickOk3(T)
  /\ pt = "round" => roundOk3(OD, T)
  /\ pt = "square" => squareOk3(S, T)
  /\ pt = "rectangle" => rectOk3(W, H, T)

\* wPerM as the branch of pipe type pt assigns it
wPerM3(pt, T, OD, S, W, H) ==
  IF pt = "round" THEN roundW3(OD, T)
  ELSE IF pt = "square" THEN squareW3(S, T)
  ELSE rectW3(W, H, T)

\* return { ok: true, wPerM, total }
done3(w, L) ==
  [ok |-> TRUE, wPerM |-> w, total |-> total3(w, L), formulaRun |-> TRUE]

\* the body of the useMemo callback on the numbers it reads
resultOf(pt, T, L, OD, S, W, H) ==
  IF valid3(pt, T, OD, S, W, H) THEN done3(wPerM3(pt, T, OD, S, W, H), L)
  ELSE invalid

\* the useMemo callback of part_000 on the field values s
result(s) ==
  resultOf(s.pipeType, mm(s.unit, n(s.thickness)), n(s.length),
           mm(s.unit, n(s.od)), mm(s.unit, n(s.side)),
           mm(s.unit, n(s.width)), mm(s.unit, n(s.height)))

\* the dependency list without unit
deps3NoUnit(s) ==
  << s.pipeType, s.od, s.side, s.width, s.height, s.thickness, s.length >>

\* dependency list of the useMemo of part_000
deps3(s) ==
  << s.pipeType, s.unit, s.od, s.side, s.width, s.height, s.thickness,
     s.length >>

\* useState initial values of part_000
init3 ==
  [pipeType |-> "round", unit |-> "mm", od |-> "", side |-> "",
   width |-> "", height |-> "", thickness |-> "", length |-> ""]

\* function reset() of part_000
reset(s) ==
  [s EXCEPT !.od = "", !.side = "", !.width = "", !.height = "",
            !.thickness = "", !.length = ""]

\* ------------------------------------------------------------------------
\* v1: page.tsx, first component (shortcut formulas)
\* ------------------------------------------------------------------------
unitLabel(u) == IF u = "ft" THEN "kg/ft" ELSE "kg/m"

\* const hasLen = Number.isFinite(L) && L > 0; total = hasLen ? w * L : NaN
totalOf(wPerUnit, L) ==
  IF IsFinite(L) /\ GtZero(L) THEN Mul(wPerUnit, L) ELSE NaN

\* the object returned when validDims fails
notOk(label) ==
  [ok |-> FALSE, unitLabel |-> label, wPerUnit |-> NaN, total |-> NaN,
   formulaRun |-> FALSE]

\* the object returned with the weight per unit w and the run length L;
\* formulaRun is an auxiliary field recording that a weight formula ran
isOk(label, w, L) ==
  [ok |-> TRUE, unitLabel |-> label, wPerUnit |-> w, total |-> totalOf(w, L),
   formulaRun |-> TRUE]

\* validDims of round: OD must be > T and T > 0
roundValid1(od, t) ==
  IsFinite(od) /\ IsFinite(t) /\ GtZero(t) /\ Gt(od, t)

\* wPerUnit of round: 10.69 * (od - t) * t kg/ft, 24.66 * (od - t) * t kg/m
roundW1(od, t, u) ==
  Mul(Mul(IF u = "ft" THEN ROUND_FACTOR_FT ELSE ROUND_FACTOR_M,
          Sub(od, t)), t)

\* the body of the callback `round` on the numbers it reads
roundOf1(od, t, L, u) ==
  IF ~roundValid1(od, t) THEN notOk(unitLabel(u))
  ELSE isOk(unitLabel(u), roundW1(od, t, u), L)

\* the useMemo callback `round` of the first component
round1(s) ==
  roundOf1(clampNonNegative(num(s.odIn)), clampNonNegative(num(s.thIn)),
           clampNonNegative(num(s.roundLen)), s.roundLenUnit)

\* validDims of square: side must be > thickness and thickness > 0
squareValid1(S, t) ==
  IsFinite(S) /\ IsFinite(t) /\ GtZero(t) /\ Gt(S, t)

\* wPerUnit of square: (4 * t * (S - t) * 7.85) / 1000
squareW1(S, t) ==
  Div1000(Mul(Mul(Mul(Four, t), Sub(S, t)), DENSITY_FACTOR))

\* the body of the callback `square` on the numbers it reads
squareOf1(S, t, L) ==
  IF ~squareValid1(S, t) THEN notOk("kg/m")
  ELSE isOk("kg/m", squareW1(S, t), L)

\* the useMemo callback `square` of the first component
square1(s) ==
  squareOf1(clampNonNegative(num(s.sideMm)), clampNonNegative(num(s.thMm)),
            clampNonNegative(num(s.sqLenM)))

\* dependency lists of the two useMemo of the first component
depsRound1(s) == << s.odIn, s.thIn, s.roundLen, s.roundLenUnit >>
depsSquare1(s) == << s.sideMm, s.thMm, s.sqLenM >>

\* useState initial values of the first component
init1 ==
  [pipeType |-> "round", odIn |-> "", thIn |-> "", roundLen |-> "",
   roundLenUnit |-> "ft", sideMm |-> "", thMm |-> "", sqLenM |-> ""]

\* useEffect of the first component: reset the other type's fields
effect1(s) ==
  IF s.pipeType = "round"
    THEN [s EXCEPT !.sideMm = "", !.thMm = "", !.sqLenM = ""]
  ELSE [s EXCEPT !.odIn = "", !.thIn = "", !.roundLen = "",
                 !.roundLenUnit = "ft"]

\* function resetAll() of the first component
resetAll1(s) == init1

\* const active = pipeType === "round" ? round : square
active(s, m) == IF s.pipeType = "round" THEN m.round ELSE m.square

\* ------------------------------------------------------------------------
\* v2: page.tsx, second component (geometry + density)
\* ------------------------------------------------------------------------
inchesToMm(xIn) == Mul(xIn, IN_TO_MM)

\* areaRoundMm2 after `const idMm = odMm - 2 * tMm`
areaRoundOf(odMm, idMm) ==
  IF ~GtZero(idMm) THEN NaN
  ELSE Mul(QuarterPi, Sub(Mul(odMm, odMm), Mul(idMm, idMm)))

\* function areaRoundMm2(odMm, tMm)
areaRoundMm2(odMm, tMm) == areaRoundOf(odMm, Sub(odMm, Mul(Two, tMm)))

\* areaSquareTubeMm2 after `const inner = sideMm - 2 * tMm`
areaSquareOf(sideMm, inner) ==
  IF ~GtZero(inner) THEN NaN
  ELSE Sub(Mul(sideMm, sideMm), Mul(inner, inner))

\* function areaSquareTubeMm2(sideMm, tMm)
areaSquareTubeMm2(sideMm, tMm) ==
  areaSquareOf(sideMm, Sub(sideMm, Mul(Two, tMm)))

\* function kgPerUnitFromArea(areaMm2, unit)
kgPerUnitFromArea(areaMm2, u) ==
  Mul(Mul(areaMm2, IF u = "ft" THEN FT_TO_MM ELSE M_TO_MM),
      STEEL_DENSITY_KG_PER_MM3)

\* validDims of round: tMm > 0 and odMm > 2 * tMm
roundValid2(odMm, tMm) ==
  IsFinite(odMm) /\ IsFinite(tMm) /\ GtZero(tMm)
    /\ Gt(odMm, Mul(Two, tMm))

\* validDims of square: tMm > 0 and sideMm > 2 * tMm
squareValid2(sideMm, tMm) ==
  IsFinite(sideMm) /\ IsFinite(tMm) /\ GtZero(tMm)
    /\ Gt(sideMm, Mul(Two, tMm))

\* const odMm = Number.isFinite(odInVal) ? inchesToMm(odInVal) : NaN
toMm(xIn) == IF IsFinite(xIn) THEN inchesToMm(xIn) ELSE NaN

\* the body of the callback `round` on the numbers it reads
roundOf2(odMm, tMm, L, u) ==
  IF ~roundValid2(odMm, tMm) THEN notOk(unitLabel(u))
  ELSE isOk(unitLabel(u), kgPerUnitFromArea(areaRoundMm2(odMm, tMm), u), L)

\* the useMemo callback `round` of the second component
round2(s) ==
  roundOf2(toMm(clampNonNegative(num(s.odIn))),
           clampNonNegative(num(s.thMmRound)),
           clampNonNegative(num(s.roundLen)), s.roundLenUnit)

\* the body of the callback `square` on the numbers it reads
squareOf2(sideMm, tMm, L, u) ==
  IF ~squareValid2(sideMm, tMm) THEN notOk(unitLabel(u))
  ELSE isOk(unitLabel(u),
            kgPerUnitFromArea(areaSquareTubeMm2(sideMm, tMm), u), L)

\* the useMemo callback `square` of the second component
square2(s) ==
  squareOf2(toMm(clampNonNegative(num(s.sideIn))),
            clampNonNegative(num(s.thMmSq)),
            clampNonNegative(num(s.sqLen)), s.sqLenUnit)

\* dependency lists of the two useMemo of the second component
depsRound2(s) == << s.odIn, s.thMmRound, s.roundLen, s.roundLenUnit >>
depsSquare2(s) == << s.sideIn, s.thMmSq, s.sqLen, s.sqLenUnit >>

\* useState initial values of the second component
init2 ==
  [pipeType |-> "round", odIn |-> "", thMmRound |-> "", roundLen |-> "",
   roundLenUnit |-> "ft", sideIn |-> "", thMmSq |-> "", sqLen |-> "",
   sqLenUnit |-> "m"]

\* the component without the useEffect on pipeType
effect2None(s) == s

\* useEffect of the second component: reset the other type's fields
effect2(s) ==
  IF s.pipeType = "round"
    THEN [s EXCEPT !.sideIn = "", !.thMmSq = "", !.sqLen = "",
                   !.sqLenUnit = "m"]
  ELSE [s EXCEPT !.odIn = "", !.thMmRound = "", !.roundLen = "",
                 !.roundLenUnit = "ft"]

\* function resetAll() of the second component
resetAll2(s) == init2

\* ------------------------------------------------------------------------
\* State
\* ------------------------------------------------------------------------
VARIABLES
  page,   \* which component is mounted: "v1", "v2" or "v3"
  s1,     \* useState values of the first component of page.tsx
  m1,     \* its memoised results [round, square]
  s2,     \* useState values of the second component of page.tsx
  m2,     \* its memoised results [round, square]
  s3,     \* useState values of the component of part_000
  m3      \* its memoised result

vars == << page, s1, m1, s2, m2, s3, m3 >>

Pages == {"v1", "v2", "v3"}

\* useMemo: the callback runs again only when a dependency changed
memo1(old, new, m) ==
  [round |-> IF depsRound1(new) # depsRound1(old) THEN round1(new)
             ELSE m.round,
   square |-> IF depsSquare1(new) # depsSquare1(old) THEN square1(new)
              ELSE m.square]

memo2(old, new, m) ==
  [round |-> IF depsRound2(new) # depsRound2(old) THEN round2(new)
             ELSE m.round,
   square |-> IF depsSquare2(new) # depsSquare2(old) THEN square2(new)
              ELSE m.square]

memo3(old, new, m) == IF deps3(new) # deps3(old) THEN result(new) ELSE m

Init ==
  /\ page \in Pages
  /\ s1 = init1
  /\ m1 = [round |-> round1(init1), square |-> square1(init1)]
  /\ s2 = init2
  /\ m2 = [round |-> round2(init2), square |-> square2(init2)]
  /\ s3 = init3
  /\ m3 = result(init3)

\* ------------------------------------------------------------------------
\* Handlers of the first component (v1)
\* ------------------------------------------------------------------------
Step1(new) ==
  /\ page = "v1"
  /\ s1' = new
  /\ m1' = memo1(s1, new, m1)
  /\ UNCHANGED << page, s2, m2, s3, m3 >>

\* onClick of the type buttons, followed by the useEffect on pipeType
SetPipeType1 ==
  \E t \in PipeTypes12 :
    Step1(IF t = s1.pipeType THEN s1
          ELSE effect1([s1 EXCEPT !.pipeType = t]))

SetOdIn1 ==
  \E v \in Tokens : s1.pipeType = "round" /\ Step1([s1 EXCEPT !.odIn = v])

SetThIn1 ==
  \E v \in Tokens : s1.pipeType = "round" /\ Step1([s1 EXCEPT !.thIn = v])

SetRoundLen1 ==
  \E v \in Tokens :
    s1.pipeType = "round" /\ Step1([s1 EXCEPT !.roundLen = v])

SetRoundLenUnit1 ==
  \E u \in LenUnits :
    s1.pipeType = "round" /\ Step1([s1 EXCEPT !.roundLenUnit = u])

SetSideMm1 ==
  \E v \in Tokens : s1.pipeType = "square" /\ Step1([s1 EXCEPT !.sideMm = v])

SetThMm1 ==
  \E v \in Tokens : s1.pipeType = "square" /\ Step1([s1 EXCEPT !.thMm = v])

SetSqLenM1 ==
  \E v \in Tokens : s1.pipeType = "square" /\ Step1([s1 EXCEPT !.sqLenM = v])

\* onClick of Reset; the useEffect runs when pipeType changed
ResetAll1 ==
  Step1(IF s1.pipeType = "round" THEN resetAll1(s1)
        ELSE effect1(resetAll1(s1)))

\* ------------------------------------------------------------------------
\* Handlers of the second component (v2)
\* ------------------------------------------------------------------------
Step2(new) ==
  /\ page = "v2"
  /\ s2' = new
  /\ m2' = memo2(s2, new, m2)
  /\ UNCHANGED << page, s1, m1, s3, m3 >>

SetPipeType2 ==
  \E t \in PipeTypes12 :
    Step2(IF t = s2.pipeType THEN s2
          ELSE effect2([s2 EXCEPT !.pipeType = t]))

SetOdIn2 ==
  \E v \in Tokens : s2.pipeType = "round" /\ Step2([s2 EXCEPT !.odIn = v])

SetThMmRound2 ==
  \E v \in Tokens :
    s2.pipeType = "round" /\ Step2([s2 EXCEPT !.thMmRound = v])

SetRoundLen2 ==
  \E v \in Tokens :
    s2.pipeType = "round" /\ Step2([s2 EXCEPT !.roundLen = v])

SetRoundLenUnit2 ==
  \E u \in LenUnits :
    s2.pipeType = "round" /\ Step2([s2 EXCEPT !.roundLenUnit = u])

SetSideIn2 ==
  \E v \in Tokens : s2.pipeType = "square" /\ Step2([s2 EXCEPT !.sideIn = v])

SetThMmSq2 ==
  \E v \in Tokens : s2.pipeType = "square" /\ Step2([s2 EXCEPT !.thMmSq = v])

SetSqLen2 ==
  \E v \in Tokens : s2.pipeType = "square" /\ Step2([s2 EXCEPT !.sqLen = v])

SetSqLenUnit2 ==
  \E u \in LenUnits :
    s2.pipeType = "square" /\ Step2([s2 EXCEPT !.sqLenUnit = u])

ResetAll2 ==
  Step2(IF s2.pipeType = "round" THEN resetAll2(s2)
        ELSE effect2(resetAll2(s2)))

\* ------------------------------------------------------------------------
\* Handlers of the component of part_000 (v3)
\* ------------------------------------------------------------------------
Step3(new) ==
  /\ page = "v3"
  /\ s3' = new
  /\ m3' = memo3(s3, new, m3)
  /\ UNCHANGED << page, s1, m1, s2, m2 >>

\* onChange of the pipe type select: setPipeType(...); reset()
ChangePipeType3 ==
  \E t \in PipeTypes3 :
    t # s3.pipeType /\ Step3(reset([s3 EXCEPT !.pipeType = t]))

\* onChange of the unit select
SetUnit3 ==
  \E u \in Units : u # s3.unit /\ Step3([s3 EXCEPT !.unit = u])

SetOd3 ==
  \E v \in Tokens : s3.pipeType = "round" /\ Step3([s3 EXCEPT !.od = v])

SetSide3 ==
  \E v \in Tokens : s3.pipeType = "square" /\ Step3([s3 EXCEPT !.side = v])

SetWidth3 ==
  \E v \in Tokens :
    s3.pipeType = "rectangle" /\ Step3([s3 EXCEPT !.width = v])

SetHeight3 ==
  \E v \in Tokens :
    s3.pipeType = "rectangle" /\ Step3([s3 EXCEPT !.height = v])

SetThickness3 == \E v \in Tokens : Step3([s3 EXCEPT !.thickness = v])

SetLength3 == \E v \in Tokens : Step3([s3 EXCEPT !.length = v])

Next ==
  \/ SetPipeType1 \/ SetOdIn1 \/ SetThIn1 \/ SetRoundLen1
  \/ SetRoundLenUnit1 \/ SetSideMm1 \/ SetThMm1 \/ SetSqLenM1 \/ ResetAll1
  \/ SetPipeType2 \/ SetOdIn2 \/ SetThMmRound2 \/ SetRoundLen2
  \/ SetRoundLenUnit2 \/ SetSideIn2 \/ SetThMmSq2 \/ SetSqLen2
  \/ SetSqLenUnit2 \/ ResetAll2
  \/ ChangePipeType3 \/ SetUnit3 \/ SetOd3 \/ SetSide3 \/ SetWidth3
  \/ SetHeight3 \/ SetThickness3 \/ SetLength3

Spec == Init /\ [][Next]_vars

\* ------------------------------------------------------------------------
\* The same handlers with a text whose square is beyond the double range.
\* The inputs are free text fields (inputMode="decimal" is only a keyboard
\* hint), so "1e200" can be typed into any of them; it is offered to the
\* outer diameter and side fields of the three components.
\* ------------------------------------------------------------------------
HugeTokens == {"1e200"}

SetOdIn1Huge ==
  \E v \in HugeTokens :
    s1.pipeType = "round" /\ Step1([s1 EXCEPT !.odIn = v])

SetSideMm1Huge ==
  \E v \in HugeTokens :
    s1.pipeType = "square" /\ Step1([s1 EXCEPT !.sideMm = v])

SetOdIn2Huge ==
  \E v \in HugeTokens :
    s2.pipeType = "round" /\ Step2([s2 EXCEPT !.odIn = v])

SetSideIn2Huge ==
  \E v \in HugeTokens :
    s2.pipeType = "square" /\ Step2([s2 EXCEPT !.sideIn = v])

SetOd3Huge ==
  \E v \in HugeTokens :
    s3.pipeType = "round" /\ Step3([s3 EXCEPT !.od = v])

SetSide3Huge ==
  \E v \in HugeTokens :
    s3.pipeType = "square" /\ Step3([s3 EXCEPT !.side = v])

NextWide ==
  \/ Next
  \/ SetOdIn1Huge \/ SetSideMm1Huge \/ SetOdIn2Huge \/ SetSideIn2Huge
  \/ SetOd3Huge \/ SetSide3Huge

SpecWide == Init /\ [][NextWide]_vars

\* ------------------------------------------------------------------------
\* The dimensions of the mounted component as its calculation reads them
\* ------------------------------------------------------------------------
od1 == clampNonNegative(num(s1.odIn))
th1 == clampNonNegative(num(s1.thIn))
len1 == clampNonNegative(num(s1.roundLen))
side1 == clampNonNegative(num(s1.sideMm))
thSq1 == clampNonNegative(num(s1.thMm))
lenSq1 == clampNonNegative(num(s1.sqLenM))

od2 == inchesToMm(clampNonNegative(num(s2.odIn)))
th2 == clampNonNegative(num(s2.thMmRound))
len2 == clampNonNegative(num(s2.roundLen))
side2 == inchesToMm(clampNonNegative(num(s2.sideIn)))
thSq2 == clampNonNegative(num(s2.thMmSq))
lenSq2 == clampNonNegative(num(s2.sqLen))

T3 == mm(s3.unit, n(s3.thickness))
OD3 == mm(s3.unit, n(s3.od))
S3 == mm(s3.unit, n(s3.side))
W3 == mm(s3.unit, n(s3.width))
H3 == mm(s3.unit, n(s3.height))
L3 == n(s3.length)

\* the results on display, one per calculation of the source
Results == {m1.round, m1.square, m2.round, m2.square}

\* geometric feasibility of a tube: thickness > 0 and every outer
\* dimension > 2 * thickness
Feasible(T, outer) ==
  /\ IsFinite(T) /\ T.sg = 1
  /\ \A d \in outer : IsFinite(d) /\ CmpFin(d, Add(T, T)) = 1

\* ------------------------------------------------------------------------
\* Claims
\* ------------------------------------------------------------------------

\* C1: whenever a calculation reports invalid, weight-per-unit and total
\* weight are both not-a-number and no weight formula was evaluated, for
\* every shape of every component.
C1_InvalidIsNaN ==
  /\ \A r \in Results :
       ~r.ok => IsNaN(r.wPerUnit) /\ IsNaN(r.total) /\ ~r.formulaRun
  /\ ~m3.ok => IsNaN(m3.wPerM) /\ IsNaN(m3.total) /\ ~m3.formulaRun

\* C1 witness: part_000 shows invalid for a round tube whose dimensions
\* parsed to positive numbers but are infeasible (OD <= 2T).
C1_Witness ==
  /\ page = "v3" /\ s3.pipeType = "round"
  /\ Gt(T3, Zero) /\ Gt(OD3, Zero) /\ ~m3.ok

\* C2 (as claimed): every round computation reports valid exactly when
\* thickness > 0 and outer diameter > 2 * thickness, both in millimetres.
C2_RoundValidIff ==
  /\ m1.round.ok <=>
       Feasible(Mul(th1, IN_TO_MM), {Mul(od1, IN_TO_MM)})
  /\ m2.round.ok <=> Feasible(th2, {od2})
  /\ s3.pipeType = "round" => (m3.ok <=> Feasible(T3, {OD3}))

\* C3: a rectangular tube is reported valid exactly when thickness > 0,
\* width > 2 * thickness and height > 2 * thickness; W = 40, H = 20, T = 10
\* is invalid.
C3_RectValidIff ==
  /\ s3.pipeType = "rectangle" => (m3.ok <=> Feasible(T3, {W3, H3}))
  /\ ~result([init3 EXCEPT !.pipeType = "rectangle", !.width = "40",
                           !.height = "20", !.thickness = "10"]).ok

\* C3 witness: a rectangle whose width exceeds 2T while the height equals
\* 2T exactly is on display as invalid.
C3_Witness ==
  /\ page = "v3" /\ s3.pipeType = "rectangle"
  /\ Gt(T3, Zero) /\ Gt(W3, Mul(Two, T3)) /\ SameValue(H3, Mul(Two, T3))
  /\ ~m3.ok

\* C4 (as claimed): every square computation reports valid exactly when
\* thickness > 0 and outer side > 2 * thickness, both in millimetres.
C4_SquareValidIff ==
  /\ m1.square.ok <=> Feasible(thSq1, {side1})
  /\ m2.square.ok <=> Feasible(thSq2, {side2})
  /\ s3.pipeType = "square" => (m3.ok <=> Feasible(T3, {S3}))

\* texts that represent a finite nonnegative number
NonNegativeLiterals ==
  {"0", "1", "2", "1.1", "12.7", "50", "10", "20", "40", "50.8", "0.1", "3"}

\* the raw text of every field of the mounted component, with the number
\* its calculation parses it to
ParsedFields ==
  IF page = "v1"
    THEN {<<s1[f], clampNonNegative(num(s1[f]))>> :
            f \in {"odIn", "thIn", "roundLen", "sideMm", "thMm", "sqLenM"}}
  ELSE IF page = "v2"
    THEN {<<s2[f], clampNonNegative(num(s2[f]))>> :
            f \in {"odIn", "thMmRound", "roundLen", "sideIn", "thMmSq",
                   "sqLen"}}
  ELSE {<<s3[f], n(s3[f])>> :
          f \in {"od", "side", "width", "height", "thickness", "length"}}

\* C5 (as claimed): a raw text that does not represent a finite nonnegative
\* number parses to not-a-number in every field, never to zero or another
\* finite number.
C5_ParseFailureIsNaN ==
  \A pf \in ParsedFields : pf[1] \notin NonNegativeLiterals => IsNaN(pf[2])

\* C6: a not-a-number dimension of the active profile makes the result
\* invalid with no finite weight, for every shape of every component.
C6_NaNDimensionInvalid ==
  /\ IsNaN(od1) \/ IsNaN(th1) =>
       ~m1.round.ok /\ ~IsFinite(m1.round.wPerUnit)
  /\ IsNaN(side1) \/ IsNaN(thSq1) =>
       ~m1.square.ok /\ ~IsFinite(m1.square.wPerUnit)
  /\ IsNaN(od2) \/ IsNaN(th2) =>
       ~m2.round.ok /\ ~IsFinite(m2.round.wPerUnit)
  /\ IsNaN(side2) \/ IsNaN(thSq2) =>
       ~m2.square.ok /\ ~IsFinite(m2.square.wPerUnit)
  /\ LET dims == IF s3.pipeType = "round" THEN {T3, OD3}
                 ELSE IF s3.pipeType = "square" THEN {T3, S3}
                 ELSE {T3, W3, H3}
     IN  (\E d \in dims : IsNaN(d)) =>
           ~m3.ok /\ ~IsFinite(m3.wPerM) /\ ~IsFinite(m3.total)

\* C6 witness: part_000 shows invalid for a round tube with a positive
\* thickness and an outer diameter that parsed to not-a-number.
C6_Witness ==
  /\ page = "v3" /\ s3.pipeType = "round"
  /\ Gt(T3, Zero) /\ IsNaN(OD3) /\ ~m3.ok

\* texts that represent a finite, strictly positive run length
PositiveLiterals == NonNegativeLiterals \ {"0"}

\* the total-weight rule for one result: ok, weight per unit w and total tot
\* computed for the run-length text len; w1 and tot1 are the weight per
\* unit and the total the same calculation gives for run length "1"
TotalRule(ok, w, tot, len, w1, tot1) ==
  ok =>
    /\ IsFinite(w) /\ SameValue(w, w1)
    /\ IF len \in PositiveLiterals
         THEN /\ SameValue(tot, Mul(w, Number(len)))
              /\ SameValue(tot, Mul(tot1, Number(len)))
       ELSE IsNaN(tot)

\* C7: for a valid profile the total weight is weight-per-unit * run length
\* when the run length is present, finite and strictly positive, so that
\* total(L) = total(1) * L; otherwise the total is not-a-number while the
\* result stays valid with the same finite weight-per-unit.
C7_TotalWeight ==
  /\ LET r1 == round1([s1 EXCEPT !.roundLen = "1"])
     IN  TotalRule(m1.round.ok, m1.round.wPerUnit, m1.round.total,
                   s1.roundLen, r1.wPerUnit, r1.total)
  /\ LET r1 == square1([s1 EXCEPT !.sqLenM = "1"])
     IN  TotalRule(m1.square.ok, m1.square.wPerUnit, m1.square.total,
                   s1.sqLenM, r1.wPerUnit, r1.total)
  /\ LET r1 == round2([s2 EXCEPT !.roundLen = "1"])
     IN  TotalRule(m2.round.ok, m2.round.wPerUnit, m2.round.total,
                   s2.roundLen, r1.wPerUnit, r1.total)
  /\ LET r1 == square2([s2 EXCEPT !.sqLen = "1"])
     IN  TotalRule(m2.square.ok, m2.square.wPerUnit, m2.square.total,
                   s2.sqLen, r1.wPerUnit, r1.total)
  /\ LET r1 == result([s3 EXCEPT !.length = "1"])
     IN  TotalRule(m3.ok, m3.wPerM, m3.total, s3.length, r1.wPerM, r1.total)

\* (S^2 - (S - 2T)^2) * 7.85e-6 * 1000
ExactSquarePerMetre(S, T) ==
  LET inner == SubR(S, AddR(T, T))
  IN  MulR(MulR(SubR(MulR(S, S), MulR(inner, inner)), Dec(785, 8)),
           Dec(1000, 0))

\* (W*H - (W - 2T)*(H - 2T)) * 7.85e-6 * 1000
ExactRectPerMetre(W, H, T) ==
  LET iw == SubR(W, AddR(T, T))
      ih == SubR(H, AddR(T, T))
  IN  MulR(MulR(SubR(MulR(W, H), MulR(iw, ih)), Dec(785, 8)), Dec(1000, 0))

\* C8: the weight per metre of a valid square tube is
\* (S^2 - (S - 2T)^2) * 7.85e-6 * 1000 and of a valid rectangular tube
\* (W*H - (W - 2T)*(H - 2T)) * 7.85e-6 * 1000, for every valid input; for
\* S = 50 mm, T = 2 mm it is 3.0144 kg/m.
C8_ExactTubeWeight ==
  /\ m1.square.ok =>
       SameValue(m1.square.wPerUnit, ExactSquarePerMetre(side1, thSq1))
  /\ m2.square.ok /\ s2.sqLenUnit = "m" =>
       SameValue(m2.square.wPerUnit, ExactSquarePerMetre(side2, thSq2))
  /\ m3.ok /\ s3.pipeType = "square" =>
       SameValue(m3.wPerM, ExactSquarePerMetre(S3, T3))
  /\ m3.ok /\ s3.pipeType = "rectangle" =>
       SameValue(m3.wPerM, ExactRectPerMetre(W3, H3, T3))
  /\ SameValue(result([init3 EXCEPT !.pipeType = "square", !.side = "50",
                                    !.thickness = "2"]).wPerM,
               Dec(30144, 4))

\* (pi/4) * (OD^2 - (OD - 2T)^2) * lengthFactor * 7.85e-6
ExactRoundPerUnit(OD, T, u) ==
  LET id == Sub(OD, Add(T, T))
      area == Mul(Div4(MathPI), Sub(Mul(OD, OD), Mul(id, id)))
      factor == IF u = "ft" THEN Dec(3048, 1) ELSE Dec(1000, 0)
  IN  Mul(Mul(area, factor), Dec(785, 8))

\* C9 (as claimed): every valid round tube's weight per run unit equals
\* (pi/4) * (OD^2 - (OD - 2T)^2) * lengthFactor * 7.85e-6, the
\* constant-multiplier computations included.
C9_RoundIsAnnulus ==
  /\ m1.round.ok =>
       SameValue(m1.round.wPerUnit,
                 ExactRoundPerUnit(Mul(od1, IN_TO_MM), Mul(th1, IN_TO_MM),
                                   s1.roundLenUnit))
  /\ m2.round.ok =>
       SameValue(m2.round.wPerUnit,
                 ExactRoundPerUnit(od2, th2, s2.roundLenUnit))
  /\ m3.ok /\ s3.pipeType = "round" =>
       SameValue(m3.wPerM, ExactRoundPerUnit(OD3, T3, "m"))

\* C10 (as claimed): for identical valid dimensions
\* weightPerFoot * 1000 = weightPerMetre * 304.8, in every calculation that
\* offers both run-length units.
C10_FootMetreConsistent ==
  /\ m1.round.ok =>
       SameValue(
         Mul(round1([s1 EXCEPT !.roundLenUnit = "ft"]).wPerUnit,
             Dec(1000, 0)),
         Mul(round1([s1 EXCEPT !.roundLenUnit = "m"]).wPerUnit,
             Dec(3048, 1)))
  /\ m2.round.ok =>
       SameValue(
         Mul(round2([s2 EXCEPT !.roundLenUnit = "ft"]).wPerUnit,
             Dec(1000, 0)),
         Mul(round2([s2 EXCEPT !.roundLenUnit = "m"]).wPerUnit,
             Dec(3048, 1)))
  /\ m2.square.ok =>
       SameValue(
         Mul(square2([s2 EXCEPT !.sqLenUnit = "ft"]).wPerUnit, Dec(1000, 0)),
         Mul(square2([s2 EXCEPT !.sqLenUnit = "m"]).wPerUnit, Dec(3048, 1)))

\* the text of the physically equal millimetre value (inch value * 25.4)
\* for a text entered in inches; text that is no number stays as it is
MmText(v) ==
  CASE v = "-1" -> "-25.4"
    [] v = "1" -> "25.4"
    [] v = "2" -> "50.8"
    [] v = "1.1" -> "27.94"
    [] v = "12.7" -> "322.58"
    [] v = "50" -> "1270"
    [] v = "10" -> "254"
    [] v = "20" -> "508"
    [] v = "40" -> "1016"
    [] v = "50.8" -> "1290.32"
    [] v = "0.1" -> "2.54"
    [] v = "3" -> "76.2"
    [] OTHER -> v

\* the fields of part_000 with every dimension re-entered in millimetres
EnteredInMm(s) ==
  [s EXCEPT !.unit = "mm", !.od = MmText(s.od), !.side = MmText(s.side),
            !.width = MmText(s.width), !.height = MmText(s.height),
            !.thickness = MmText(s.thickness)]

\* the round result of the second component of page.tsx when the outer
\* diameter is given as the millimetre text odMmText
round2EnteredInMm(s, odMmText) ==
  LET odMm == clampNonNegative(num(odMmText))
      tMm == clampNonNegative(num(s.thMmRound))
      w == kgPerUnitFromArea(areaRoundMm2(odMm, tMm), s.roundLenUnit)
  IN  [ok |-> roundValid2(odMm, tMm),
       wPerUnit |-> IF roundValid2(odMm, tMm) THEN w ELSE NaN]

\* the same for the square result and its side
square2EnteredInMm(s, sideMmText) ==
  LET sideMm == clampNonNegative(num(sideMmText))
      tMm == clampNonNegative(num(s.thMmSq))
      w == kgPerUnitFromArea(areaSquareTubeMm2(sideMm, tMm), s.sqLenUnit)
  IN  [ok |-> squareValid2(sideMm, tMm),
       wPerUnit |-> IF squareValid2(sideMm, tMm) THEN w ELSE NaN]

\* C11: unit invariance: a dimension entered in inches gives the same
\* validity and the same weights as the physically equal value (inch value
\* * 25.4) entered in millimetres, every other dimension unchanged; outer
\* diameter 2 in with thickness 2 mm is the tube of 50.8 mm with 2 mm
\* (0.76616 * pi kg/m).
C11_UnitInvariance ==
  /\ s3.unit = "in" =>
       LET r == result(EnteredInMm(s3))
       IN  /\ m3.ok = r.ok
           /\ SameValue(m3.wPerM, r.wPerM)
           /\ SameValue(m3.total, r.total)
  /\ LET r == round2EnteredInMm(s2, MmText(s2.odIn))
     IN  m2.round.ok = r.ok /\ SameValue(m2.round.wPerUnit, r.wPerUnit)
  /\ LET r == square2EnteredInMm(s2, MmText(s2.sideIn))
     IN  m2.square.ok = r.ok /\ SameValue(m2.square.wPerUnit, r.wPerUnit)
  /\ SameValue(round2([init2 EXCEPT !.odIn = "2", !.thMmRound = "2",
                                    !.roundLenUnit = "m"]).wPerUnit,
               Mul(MathPI, Dec(76616, 5)))

\* C11 witness: part_000 shows a valid round tube entered in inches, with
\* a run length.
C11_Witness ==
  /\ page = "v3" /\ s3.unit = "in" /\ s3.pipeType = "round"
  /\ m3.ok /\ IsFinite(m3.total)

\* the fields of each component with the inputs of the shapes that are not
\* active set to the text v
OtherShapes1(s, v) ==
  IF s.pipeType = "round"
    THEN [s EXCEPT !.sideMm = v, !.thMm = v, !.sqLenM = v]
  ELSE [s EXCEPT !.odIn = v, !.thIn = v, !.roundLen = v]

OtherShapes2(s, v) ==
  IF s.pipeType = "round"
    THEN [s EXCEPT !.sideIn = v, !.thMmSq = v, !.sqLen = v]
  ELSE [s EXCEPT !.odIn = v, !.thMmRound = v, !.roundLen = v]

OtherShapes3(s, v) ==
  IF s.pipeType = "round"
    THEN [s EXCEPT !.side = v, !.width = v, !.height = v]
  ELSE IF s.pipeType = "square"
    THEN [s EXCEPT !.od = v, !.width = v, !.height = v]
  ELSE [s EXCEPT !.od = v, !.side = v]

\* the pure calculation of the active shape on the field values s
Calc1(s) == IF s.pipeType = "round" THEN round1(s) ELSE square1(s)
Calc2(s) == IF s.pipeType = "round" THEN round2(s) ELSE square2(s)

\* C12: after any sequence of edits, unit changes, shape switches and
\* resets, the result on display is the pure calculation applied to the
\* current values of the active shape's inputs only.
C12_DisplayIsPure ==
  /\ m1.round = round1(s1) /\ m1.square = square1(s1)
  /\ m2.round = round2(s2) /\ m2.square = square2(s2)
  /\ m3 = result(s3)
  /\ \A v \in Tokens :
       /\ active(s1, m1) = Calc1(OtherShapes1(s1, v))
       /\ active(s2, m2) = Calc2(OtherShapes2(s2, v))
       /\ m3 = result(OtherShapes3(s3, v))

\* C12 witness: part_000 shows a valid square tube in inches, reached by a
\* shape switch, a unit change and field edits.
C12_Witness ==
  /\ page = "v3" /\ s3.pipeType = "square" /\ s3.unit = "in" /\ m3.ok

\* a result with weight per unit wB, computed for a larger outer
\* dimension, against the weight per unit w: still valid, strictly heavier
Heavier(okB, wB, w) == okB /\ Gt(wB, w)

\* every text a field of an outer dimension accepts
Texts == Tokens \cup HugeTokens

\* C13: area monotonicity: for a fixed thickness and a valid profile,
\* strictly increasing one outer dimension (outer diameter, side, or width
\* or height with the other held fixed) keeps the profile valid and
\* strictly increases the cross-sectional area and the weight per unit.
C13_AreaMonotone ==
  \A b \in Texts :
    /\ m1.round.ok /\ Gt(clampNonNegative(num(b)), od1) =>
         LET r == round1([s1 EXCEPT !.odIn = b])
         IN  Heavier(r.ok, r.wPerUnit, m1.round.wPerUnit)
    /\ m1.square.ok /\ Gt(clampNonNegative(num(b)), side1) =>
         LET r == square1([s1 EXCEPT !.sideMm = b])
         IN  Heavier(r.ok, r.wPerUnit, m1.square.wPerUnit)
    /\ m2.round.ok /\ Gt(inchesToMm(clampNonNegative(num(b))), od2) =>
         LET r == round2([s2 EXCEPT !.odIn = b])
             odB == inchesToMm(clampNonNegative(num(b)))
         IN  /\ Heavier(r.ok, r.wPerUnit, m2.round.wPerUnit)
             /\ Gt(areaRoundMm2(odB, th2), areaRoundMm2(od2, th2))
    /\ m2.square.ok /\ Gt(inchesToMm(clampNonNegative(num(b))), side2) =>
         LET r == square2([s2 EXCEPT !.sideIn = b])
             sideB == inchesToMm(clampNonNegative(num(b)))
         IN  /\ Heavier(r.ok, r.wPerUnit, m2.square.wPerUnit)
             /\ Gt(areaSquareTubeMm2(sideB, thSq2),
                   areaSquareTubeMm2(side2, thSq2))
    /\ m3.ok /\ s3.pipeType = "round" /\ Gt(mm(s3.unit, n(b)), OD3) =>
         LET r == result([s3 EXCEPT !.od = b])
         IN  Heavier(r.ok, r.wPerM, m3.wPerM)
    /\ m3.ok /\ s3.pipeType = "square" /\ Gt(mm(s3.unit, n(b)), S3) =>
         LET r == result([s3 EXCEPT !.side = b])
         IN  Heavier(r.ok, r.wPerM, m3.wPerM)
    /\ m3.ok /\ s3.pipeType = "rectangle" /\ Gt(mm(s3.unit, n(b)), W3) =>
         LET r == result([s3 EXCEPT !.width = b])
         IN  Heavier(r.ok, r.wPerM, m3.wPerM)
    /\ m3.ok /\ s3.pipeType = "rectangle" /\ Gt(mm(s3.unit, n(b)), H3) =>
         LET r == result([s3 EXCEPT !.height = b])
         IN  Heavier(r.ok, r.wPerM, m3.wPerM)

\* x > 0, whatever power of Math.PI x carries
Positive(x) == ~IsNaN(x) /\ x.sg = 1

\* C14: whenever validation has passed, the cross-sectional area and the
\* weight per unit are finite and strictly positive, so a valid result never
\* carries a NaN, zero or negative weight per unit (the second component of
\* page.tsx and the component of part_000, whatever text the fields hold).
C14_ValidIsFinitePositive ==
  /\ m2.round.ok =>
       /\ IsFinite(areaRoundMm2(od2, th2))
       /\ Positive(areaRoundMm2(od2, th2))
       /\ IsFinite(m2.round.wPerUnit) /\ Positive(m2.round.wPerUnit)
  /\ m2.square.ok =>
       /\ IsFinite(areaSquareTubeMm2(side2, thSq2))
       /\ Positive(areaSquareTubeMm2(side2, thSq2))
       /\ IsFinite(m2.square.wPerUnit) /\ Positive(m2.square.wPerUnit)
  /\ m3.ok => IsFinite(m3.wPerM) /\ Positive(m3.wPerM)

\* the fields of the shapes that are not active hold their initial values
InactiveEmpty1(s) ==
  IF s.pipeType = "round"
    THEN s.sideMm = "" /\ s.thMm = "" /\ s.sqLenM = ""
  ELSE s.odIn = "" /\ s.thIn = "" /\ s.roundLen = ""

InactiveEmpty2(s) ==
  IF s.pipeType = "round"
    THEN s.sideIn = "" /\ s.thMmSq = "" /\ s.sqLen = ""
  ELSE s.odIn = "" /\ s.thMmRound = "" /\ s.roundLen = ""

InactiveEmpty3(s) ==
  /\ s.pipeType # "round" => s.od = ""
  /\ s.pipeType # "square" => s.side = ""
  /\ s.pipeType # "rectangle" => s.width = "" /\ s.height = ""

\* the dimension and length fields of the active shape are all empty
ActiveEmpty1(s) ==
  IF s.pipeType = "round"
    THEN s.odIn = "" /\ s.thIn = "" /\ s.roundLen = ""
  ELSE s.sideMm = "" /\ s.thMm = "" /\ s.sqLenM = ""

ActiveEmpty2(s) ==
  IF s.pipeType = "round"
    THEN s.odIn = "" /\ s.thMmRound = "" /\ s.roundLen = ""
  ELSE s.sideIn = "" /\ s.thMmSq = "" /\ s.sqLen = ""

ActiveEmpty3(s) ==
  /\ s.od = "" /\ s.side = "" /\ s.width = "" /\ s.height = ""
  /\ s.thickness = "" /\ s.length = ""

\* one step of a component: what holds once a shape switch is processed,
\* and what holds of the other shapes' fields after every step
SwitchClears ==
  /\ s1'.pipeType # s1.pipeType =>
       ActiveEmpty1(s1') /\ ~active(s1', m1').ok
  /\ s2'.pipeType # s2.pipeType =>
       ActiveEmpty2(s2') /\ ~active(s2', m2').ok
  /\ s3'.pipeType # s3.pipeType => ActiveEmpty3(s3') /\ ~m3'.ok
  /\ InactiveEmpty1(s1') /\ InactiveEmpty2(s2') /\ InactiveEmpty3(s3')

\* C15: after any sequence of edits and shape switches, once a shape switch
\* has been processed the dimension and length fields of the newly active
\* shape are all empty and the result on display is invalid; the fields of
\* the shapes that are not selected are empty after every step, so a value
\* typed for a previously selected shape is never used for the active one.
C15_SwitchClearsFields == [][SwitchClears]_vars

\* C15 witness: the second component of page.tsx shows the square tube,
\* which only a shape switch selects, with empty fields and no valid result.
C15_Witness ==
  /\ page = "v2" /\ s2.pipeType = "square"
  /\ ActiveEmpty2(s2) /\ InactiveEmpty2(s2) /\ ~active(s2, m2).ok

====
